---- MODULE Spec2Model ----
(***************************************************************************)
(* A model of the arrows puzzle: the board validator (Game::new in         *)
(* game.rs) and the solver (Solver in solver.rs), driven the way main.rs   *)
(* drives them: validate a board, solve it, validate the solver's output.  *)
(***************************************************************************)
EXTENDS Integers, Sequences, FiniteSets, TLC

\* Boards of the model have at most MaxCells cells; clue numbers range over
\* 1..MaxCells+1, so that a number above the cell count occurs on every board.
MaxCells == 3

(***************************************************************************)
(* game.rs: the data model                                                 *)
(***************************************************************************)

\* enum Direction
Direction ==
    {"North", "Northeast", "East", "Southeast", "South", "Southwest", "West", "Northwest"}

\* enum Pointer { Go(Direction), Final }
Go(d) == <<"Go", d>>
Final == <<"Final">>
Pointer == {Go(d) : d \in Direction} \cup {Final}

\* Option<T>
None == <<>>
Some(x) == <<x>>
is_some(o) == o # None
unwrap(o) == o[1]

\* Result<T, E>, and the outcome of a call that panics
Ok(x) == <<"Ok", x>>
Err(e) == <<"Err", e>>
Panic == <<"Panic">>
is_ok(r) == r[1] = "Ok"
is_err(r) == r[1] = "Err"

\* A call that has not been made
NotRun == <<"NotRun">>

\* enum game::Error
EmptyBoard == <<"EmptyBoard">>
MultipleOfNumber(n) == <<"MultipleOfNumber", n>>
NumberTooHigh(n) == <<"NumberTooHigh", n>>
NoZeroAllowed == <<"NoZeroAllowed">>
WrongFinalNumber(actual, expected) == <<"WrongFinalNumber", actual, expected>>
FinalNumberWithDirection(n, d) == <<"FinalNumberWithDirection", n, d>>

\* struct Cell { pointer, number }
Cell(pointer, number) == [pointer |-> pointer, number |-> number]

\* A constructor that takes any number.
Cell_new_unchecked(pointer, number) == Ok(Cell(pointer, number))

\* Cell::new
Cell_new(pointer, number) ==
    IF number = Some(0) THEN Err(NoZeroAllowed) ELSE Ok(Cell(pointer, number))

\* Cell::pointer_number
pointer_number(cell) ==
    IF is_some(cell.number) THEN Some(<<cell.pointer, unwrap(cell.number)>>) ELSE None

\* type Board = Array2D<Cell>: the cells are kept in row-major order
Array2D(rows, columns, cells) ==
    [num_rows |-> rows, num_columns |-> columns, cells |-> cells]

num_elements(b) == b.num_rows * b.num_columns

\* Array2D's Index<(usize, usize)>
at(b, row, column) == b.cells[row * b.num_columns + column + 1]

\* struct solver::Index { row, column }
Index_new(row, column) == [row |-> row, column |-> column]

\* Array2D::enumerate_row_major: the position of the i-th cell (i from 1)
row_major_index(b, i) == Index_new((i - 1) \div b.num_columns, (i - 1) % b.num_columns)

(***************************************************************************)
(* game.rs: Game::new                                                      *)
(***************************************************************************)

\* A validator that never looks at a Final cell's number.
check_cell_ignoring_final(pointer, number, max_number, seen) ==
    IF pointer # Final /\ number = max_number
      THEN Some(FinalNumberWithDirection(number, pointer[2]))
    ELSE IF number \in seen THEN Some(MultipleOfNumber(number))
    ELSE IF number > max_number THEN Some(NumberTooHigh(number))
    ELSE None

\* A validator that looks for a repeated number before it looks at the pointer.
check_cell_seen_first(pointer, number, max_number, seen) ==
    IF number \in seen THEN Some(MultipleOfNumber(number))
    ELSE IF pointer # Final /\ number = max_number
      THEN Some(FinalNumberWithDirection(number, pointer[2]))
    ELSE IF pointer = Final /\ number # max_number
      THEN Some(WrongFinalNumber(number, max_number))
    ELSE IF number > max_number THEN Some(NumberTooHigh(number))
    ELSE None

\* A validator that has no upper bound on the numbers.
check_cell_without_bound(pointer, number, max_number, seen) ==
    IF pointer # Final /\ number = max_number
      THEN Some(FinalNumberWithDirection(number, pointer[2]))
    ELSE IF pointer = Final /\ number # max_number
      THEN Some(WrongFinalNumber(number, max_number))
    ELSE IF number \in seen THEN Some(MultipleOfNumber(number))
    ELSE None

\* A validator that reports the expected number as the actual one.
check_cell_swapped_final(pointer, number, max_number, seen) ==
    IF pointer # Final /\ number = max_number
      THEN Some(FinalNumberWithDirection(number, pointer[2]))
    ELSE IF pointer = Final /\ number # max_number
      THEN Some(WrongFinalNumber(max_number, number))
    ELSE IF number \in seen THEN Some(MultipleOfNumber(number))
    ELSE IF number > max_number THEN Some(NumberTooHigh(number))
    ELSE None

\* The body of Game::new's loop for one numbered cell: the error it returns,
\* or None when the cell passes and its number joins `seen`.
check_cell(pointer, number, max_number, seen) ==
    IF pointer # Final /\ number = max_number
      THEN Some(FinalNumberWithDirection(number, pointer[2]))
    ELSE IF pointer = Final /\ number # max_number
      THEN Some(WrongFinalNumber(number, max_number))
    ELSE IF number \in seen THEN Some(MultipleOfNumber(number))
    ELSE IF number > max_number THEN Some(NumberTooHigh(number))
    ELSE None

\* Game::new's loop over the numbered cells in row-major order, from cell i on.
RECURSIVE Game_new_loop(_, _, _)
Game_new_loop(b, i, seen) ==
    IF i > Len(b.cells) THEN Ok([board |-> b])
    ELSE LET pn == pointer_number(b.cells[i]) IN
         IF pn = None THEN Game_new_loop(b, i + 1, seen)
         ELSE LET pointer == unwrap(pn)[1]
                  number == unwrap(pn)[2]
                  e == check_cell(pointer, number, num_elements(b), seen)
              IN IF is_some(e) THEN Err(unwrap(e))
                 ELSE Game_new_loop(b, i + 1, seen \cup {number})

\* Game::new
Game_new(b) ==
    IF num_elements(b) = 0 THEN Err(EmptyBoard) ELSE Game_new_loop(b, 1, {})

(***************************************************************************)
(* solver.rs: geometry                                                     *)
(***************************************************************************)

\* abs_difference
abs_difference(x, y) == IF x < y THEN y - x ELSE x - y

\* usize::cmp
cmp(x, y) == IF x < y THEN "Less" ELSE IF x = y THEN "Equal" ELSE "Greater"

\* A direction taken from the signs of the differences alone, whether or not
\* the two positions are on one line.
get_direction_by_sign(index1, index2) ==
    LET north_south_cmp == cmp(index2.row, index1.row)
        east_west_cmp == cmp(index2.column, index1.column)
    IN CASE north_south_cmp = "Less" /\ east_west_cmp = "Less" -> Some("Northwest")
         [] north_south_cmp = "Less" /\ east_west_cmp = "Equal" -> Some("North")
         [] north_south_cmp = "Less" /\ east_west_cmp = "Greater" -> Some("Northeast")
         [] north_south_cmp = "Equal" /\ east_west_cmp = "Less" -> Some("West")
         [] north_south_cmp = "Equal" /\ east_west_cmp = "Equal" -> None
         [] north_south_cmp = "Equal" /\ east_west_cmp = "Greater" -> Some("East")
         [] north_south_cmp = "Greater" /\ east_west_cmp = "Less" -> Some("Southwest")
         [] north_south_cmp = "Greater" /\ east_west_cmp = "Equal" -> Some("South")
         [] north_south_cmp = "Greater" /\ east_west_cmp = "Greater" -> Some("Southeast")

\* get_direction
get_direction(index1, index2) ==
    LET row_diff == abs_difference(index1.row, index2.row)
        column_diff == abs_difference(index1.column, index2.column)
        north_south_cmp == cmp(index2.row, index1.row)
        east_west_cmp == cmp(index2.column, index1.column)
    IN IF row_diff # 0 /\ column_diff # 0 /\ row_diff # column_diff THEN None
       ELSE CASE north_south_cmp = "Less" /\ east_west_cmp = "Less" -> Some("Northwest")
              [] north_south_cmp = "Less" /\ east_west_cmp = "Equal" -> Some("North")
              [] north_south_cmp = "Less" /\ east_west_cmp = "Greater" -> Some("Northeast")
              [] north_south_cmp = "Equal" /\ east_west_cmp = "Less" -> Some("West")
              [] north_south_cmp = "Equal" /\ east_west_cmp = "Equal" -> None
              [] north_south_cmp = "Equal" /\ east_west_cmp = "Greater" -> Some("East")
              [] north_south_cmp = "Greater" /\ east_west_cmp = "Less" -> Some("Southwest")
              [] north_south_cmp = "Greater" /\ east_west_cmp = "Equal" -> Some("South")
              [] north_south_cmp = "Greater" /\ east_west_cmp = "Greater" -> Some("Southeast")

\* A subtraction that stops at 0 (usize::saturating_sub) in place of checked_sub.
saturating_sub(x, y) == IF x < y THEN Some(0) ELSE Some(x - y)

\* usize::checked_sub
checked_sub(x, y) == IF x < y THEN None ELSE Some(x - y)

\* Index::step
step(index, direction) ==
    LET new_row ==
            IF direction \in {"Northwest", "North", "Northeast"}
              THEN checked_sub(index.row, 1)
            ELSE IF direction \in {"Southwest", "South", "Southeast"}
              THEN Some(index.row + 1)
            ELSE Some(index.row)
        new_column ==
            IF direction \in {"Northwest", "West", "Southwest"}
              THEN checked_sub(index.column, 1)
            ELSE IF direction \in {"Northeast", "East", "Southeast"}
              THEN Some(index.column + 1)
            ELSE Some(index.column)
    IN IF new_row = None \/ new_column = None THEN None
       ELSE Some(Index_new(unwrap(new_row), unwrap(new_column)))

(***************************************************************************)
(* solver.rs: the anchor map, a HashMap<Number, Index>                     *)
(***************************************************************************)

\* The values std's RandomState, the HashMap's hash builder, is drawn from.
RandomState == {0, 1}

\* A HashMap: its entries, and the hash builder that fixes its iteration order.
HashMap(entries, hash_builder) == [entries |-> entries, hash_builder |-> hash_builder]

\* The keys of a map in ascending order (an iteration order; the solver itself
\* never iterates over its map).
RECURSIVE ascending(_)
ascending(keys) ==
    IF keys = {} THEN <<>>
    ELSE LET least == CHOOSE k \in keys : \A j \in keys : k <= j
         IN <<least>> \o ascending(keys \ {least})

\* The keys of a map in descending order.
RECURSIVE descending(_)
descending(keys) ==
    IF keys = {} THEN <<>>
    ELSE LET most == CHOOSE k \in keys : \A j \in keys : j <= k
         IN <<most>> \o descending(keys \ {most})

\* HashMap::keys: the order of iteration depends on the hash builder alone.
keys_iter(map) ==
    IF map.hash_builder = 0 THEN ascending(DOMAIN map.entries)
    ELSE descending(DOMAIN map.entries)

\* A lookup by position in the iteration order instead of by key.
contains_key_nth(map, key) ==
    /\ key >= 1
    /\ key <= Len(keys_iter(map))
    /\ keys_iter(map)[key] = key

\* A lookup of the preceding key.
contains_key_prev(map, key) == (key - 1) \in DOMAIN map.entries

\* HashMap::contains_key
contains_key(map, key) == key \in DOMAIN map.entries

\* HashMap::get
get(map, key) == IF key \in DOMAIN map.entries THEN Some(map.entries[key]) ELSE None

\* Solver::create_num_to_index: the numbered cells collected in row-major
\* order, so that of two cells with one number the later one is kept. The hash
\* builder is the one that collect() draws for the new map.
create_num_to_index(b, hash_builder) ==
    LET numbered == {i \in 1..Len(b.cells) : is_some(b.cells[i].number)}
        keys == {unwrap(b.cells[i].number) : i \in numbered}
        last(n) == CHOOSE i \in numbered :
                     /\ b.cells[i].number = Some(n)
                     /\ \A j \in numbered : b.cells[j].number = Some(n) => j <= i
    IN HashMap([n \in keys |-> row_major_index(b, last(n))], hash_builder)

\* Solver::new
Solver_new(b, hash_builder) ==
    [board |-> b, num_to_index |-> create_num_to_index(b, hash_builder)]

\* Solver::max_number
max_number(self) == num_elements(self.board)

(***************************************************************************)
(* solver.rs: the candidate positions                                      *)
(***************************************************************************)

\* enum solver::Error
ImpossibleBoard == <<"ImpossibleBoard">>
Internal(prev_index) == <<"Internal", prev_index>>

\* Solver::get_empty_indices: the unnumbered positions in row-major order,
\* from cell i on.
RECURSIVE get_empty_indices_from(_, _)
get_empty_indices_from(self, i) ==
    IF i > Len(self.board.cells) THEN <<>>
    ELSE (IF is_some(self.board.cells[i].number) THEN <<>>
          ELSE <<row_major_index(self.board, i)>>)
         \o get_empty_indices_from(self, i + 1)

\* Solver::get_empty_indices
get_empty_indices(self) == get_empty_indices_from(self, 1)

\* The loop of Solver::get_empty_indices_in_direction.
RECURSIVE scan_in_direction(_, _, _, _)
scan_in_direction(self, index, direction, indices) ==
    LET next == step(index, direction) IN
    IF next = None THEN indices
    ELSE LET i == unwrap(next) IN
         IF i.row >= self.board.num_rows \/ i.column >= self.board.num_columns
           THEN indices
         ELSE scan_in_direction(
                self, i, direction,
                IF at(self.board, i.row, i.column).number = None
                  THEN Append(indices, i) ELSE indices)

\* A scan that ends at the first numbered cell.
RECURSIVE scan_until_numbered(_, _, _, _)
scan_until_numbered(self, index, direction, indices) ==
    LET next == step(index, direction) IN
    IF next = None THEN indices
    ELSE LET i == unwrap(next) IN
         IF i.row >= self.board.num_rows \/ i.column >= self.board.num_columns
           THEN indices
         ELSE IF at(self.board, i.row, i.column).number # None THEN indices
         ELSE scan_until_numbered(self, i, direction, Append(indices, i))

get_empty_indices_until_numbered(self, index, direction) ==
    scan_until_numbered(self, index, direction, <<>>)

\* A scan that takes the number of rows for the bound of the columns, too.
RECURSIVE scan_in_square(_, _, _, _)
scan_in_square(self, index, direction, indices) ==
    LET next == step(index, direction) IN
    IF next = None THEN indices
    ELSE LET i == unwrap(next) IN
         IF i.row >= self.board.num_rows \/ i.column >= self.board.num_rows
           THEN indices
         ELSE scan_in_square(
                self, i, direction,
                IF at(self.board, i.row, i.column).number = None
                  THEN Append(indices, i) ELSE indices)

get_empty_indices_in_square(self, index, direction) ==
    scan_in_square(self, index, direction, <<>>)

\* Solver::get_empty_indices_in_direction
get_empty_indices_in_direction(self, index, direction) ==
    scan_in_direction(self, index, direction, <<>>)

\* Candidates that, for a predecessor without an anchor, are every position of
\* the board, numbered or not.
get_possible_indices_with_numbered(self, prev_number) ==
    LET found == get(self.num_to_index, prev_number) IN
    IF found = None
      THEN Ok([i \in 1..Len(self.board.cells) |-> row_major_index(self.board, i)])
    ELSE LET prev_index == unwrap(found)
             prev_pointer == at(self.board, prev_index.row, prev_index.column).pointer
         IN IF prev_pointer = Final THEN Err(Internal(prev_index))
            ELSE Ok(get_empty_indices_in_direction(self, prev_index, prev_pointer[2]))

\* Solver::get_possible_indices_from_prev
get_possible_indices_from_prev(self, prev_number) ==
    LET found == get(self.num_to_index, prev_number) IN
    IF found = None THEN Ok(get_empty_indices(self))
    ELSE LET prev_index == unwrap(found)
             prev_pointer == at(self.board, prev_index.row, prev_index.column).pointer
         IN IF prev_pointer = Final THEN Err(Internal(prev_index))
            ELSE Ok(get_empty_indices_in_direction(self, prev_index, prev_pointer[2]))

(***************************************************************************)
(* solver.rs: Solver::solve                                                *)
(***************************************************************************)

\* The board with the number of cell i set to `number`.
with_number(b, i, number) ==
    [b EXCEPT !.cells[i] = Cell(b.cells[i].pointer, number)]

\* The board with the last number of the board written into its first
\* unnumbered cell.
board_filling_last(self) ==
    LET empty == {i \in 1..Len(self.board.cells) : self.board.cells[i].number = None} IN
    IF empty = {} THEN self.board
    ELSE with_number(self.board, CHOOSE i \in empty : \A j \in empty : i <= j,
                     Some(max_number(self)))

\* The board with the number of the highest anchored cell cleared, as an undo
\* of that cell's assignment would leave it.
board_undoing_last(self) ==
    LET keys == DOMAIN self.num_to_index.entries IN
    IF keys = {} THEN self.board
    ELSE LET index == self.num_to_index.entries[CHOOSE k \in keys : \A j \in keys : j <= k]
         IN with_number(self.board, index.row * self.board.num_columns + index.column + 1,
                        None)

\* The board that Solver::solve returns in its Ok.
solved_board(self) == self.board

(***************************************************************************)
(* The state: one board, validated, solved and validated again as main.rs  *)
(* does it (main.rs:61-62, 105-110).  Solver::solve takes any Board, so    *)
(* the solver runs whatever Game::new answered.                            *)
(***************************************************************************)

VARIABLES
    board,            \* the input board
    gameResult,       \* what Game::new(board) returned
    pc,               \* "validate", "solve", "solve_internal", "done", "end"
    solver,           \* Solver::solve's `solver`, None before Solver::new
    number,           \* the argument of the running call of solve_internal
    possible_indices, \* solve_internal's `possible_indices`, once computed
    result,           \* what Solver::solve returned, or Panic
    recheck,          \* what Game::new returned for the solver's board
    run,              \* 1 for the first solve of the board, 2 for a second
    firstResult,      \* what the first solve returned, during a second
    call,             \* a single call of one function: its name and arguments
    ret               \* what that call returned

vars ==
    <<board, gameResult, pc, solver, number, possible_indices, result, recheck,
      run, firstResult, call, ret>>

\* The pointers of the boards of the model.
BoardPointers == {Go("East"), Go("South"), Final}

\* The cells that Cell::new builds from those pointers and the numbers up to
\* MaxCells + 1.
InputCells ==
    LET made == {Cell_new(p, n) : p \in BoardPointers,
                                  n \in {None} \cup {Some(k) : k \in 0..(MaxCells + 1)}}
    IN {r[2] : r \in {m \in made : is_ok(m)}}

\* The shapes of the boards: the empty board and every rows x columns grid of
\* at most MaxCells cells.
Shapes ==
    {<<0, 0>>} \cup
    {s \in (1..MaxCells) \X (1..MaxCells) : s[1] * s[2] <= MaxCells}

\* The input is any board of one of the shapes, its cells from InputCells.
Init ==
    /\ \E s \in Shapes : \E cells \in [1..(s[1] * s[2]) -> InputCells] :
         board = Array2D(s[1], s[2], cells)
    /\ gameResult = NotRun
    /\ pc = "validate"
    /\ solver = None
    /\ number = 0
    /\ possible_indices = NotRun
    /\ result = NotRun
    /\ recheck = NotRun
    /\ run = 1
    /\ firstResult = NotRun
    /\ call = NotRun
    /\ ret = NotRun

\* Game::new(board)
GameNew ==
    /\ pc = "validate"
    /\ gameResult' = Game_new(board)
    /\ pc' = "solve"
    /\ UNCHANGED <<board, solver, number, possible_indices, result, recheck, run,
                   firstResult>>
    /\ UNCHANGED <<call, ret>>

\* Solver::solve up to its call solve_internal(1)
SolverNew ==
    /\ pc = "solve"
    /\ \E hash_builder \in RandomState :
         solver' = Some(Solver_new(board, hash_builder))
    /\ number' = 1
    /\ pc' = "solve_internal"
    /\ UNCHANGED <<board, gameResult, possible_indices, result, recheck, run,
                   firstResult>>
    /\ UNCHANGED <<call, ret>>

\* solve_internal(number) when number >= num_elements: Ok(()) goes back up
\* through every caller, and solve returns Ok(solver.board).
SolveInternalReturn ==
    /\ pc = "solve_internal"
    /\ number >= num_elements(unwrap(solver).board)
    /\ result' = Ok(solved_board(unwrap(solver)))
    /\ pc' = "done"
    /\ UNCHANGED <<board, gameResult, solver, number, possible_indices, recheck, run,
                   firstResult>>
    /\ UNCHANGED <<call, ret>>

\* solve_internal(number) when the number is anchored: solve_internal(number + 1)
SolveInternalClue ==
    /\ pc = "solve_internal"
    /\ number < num_elements(unwrap(solver).board)
    /\ contains_key(unwrap(solver).num_to_index, number)
    /\ number' = number + 1
    /\ UNCHANGED <<board, gameResult, pc, solver, possible_indices, result, recheck,
                   run, firstResult>>
    /\ UNCHANGED <<call, ret>>

\* solve_internal(number) when the number has no anchor: the candidates are
\* computed and unimplemented!() panics.
SolveInternalSearch ==
    /\ pc = "solve_internal"
    /\ number < num_elements(unwrap(solver).board)
    /\ ~contains_key(unwrap(solver).num_to_index, number)
    /\ possible_indices' = get_possible_indices_from_prev(unwrap(solver), number - 1)
    /\ result' = Panic
    /\ pc' = "done"
    /\ UNCHANGED <<board, gameResult, solver, number, recheck, run, firstResult>>
    /\ UNCHANGED <<call, ret>>

\* Game::new(solved board), main.rs:62 and main.rs:110
Revalidate ==
    /\ pc = "done"
    /\ is_ok(result)
    /\ recheck' = Game_new(result[2])
    /\ pc' = "end"
    /\ UNCHANGED <<board, gameResult, solver, number, possible_indices, result, run,
                   firstResult>>
    /\ UNCHANGED <<call, ret>>

\* A second Solver::solve of the same board, after the first one is over.
SolveAgain ==
    /\ run = 1
    /\ \/ pc = "end"
       \/ pc = "done" /\ ~is_ok(result)
    /\ firstResult' = result
    /\ run' = 2
    /\ pc' = "solve"
    /\ solver' = None
    /\ number' = 0
    /\ possible_indices' = NotRun
    /\ result' = NotRun
    /\ recheck' = NotRun
    /\ UNCHANGED <<board, gameResult>>
    /\ UNCHANGED <<call, ret>>

Next ==
    \/ GameNew
    \/ SolverNew
    \/ SolveInternalReturn
    \/ SolveInternalClue
    \/ SolveInternalSearch
    \/ Revalidate

Spec == Init /\ [][Next]_vars

NextTwice == Next \/ SolveAgain

\* The same, with every board solved a second time.
SpecTwice == Init /\ [][NextTwice]_vars

\* Game::new alone, on every board.
NextGame == GameNew

SpecGame == Init /\ [][NextGame]_vars

(***************************************************************************)
(* Single calls of Cell::new, get_direction, Index::step and of the        *)
(* solver's candidate functions on a solver built by Solver::new, as the   *)
(* tests of game.rs and solver.rs make them.                               *)
(***************************************************************************)

\* The boards of these calls have at most MaxSide rows and MaxSide columns, and
\* rows and columns of the positions passed range over 0..MaxSide.
MaxSide == 3

\* The boards of these calls have at most MaxClues numbered cells.
MaxClues == 2

Coordinates == 0..MaxSide
Indices == {Index_new(row, column) : row \in Coordinates, column \in Coordinates}

\* The rank of cell i among the cells `clues`, in row-major order.
rank(clues, i) == Cardinality({j \in clues : j <= i})

\* A rows x columns board whose cells all have the pointer `pointer`, the cells
\* `clues` numbered 1, 2, ... in row-major order and the others unnumbered.
TestBoard(rows, columns, pointer, clues) ==
    Array2D(rows, columns,
            [i \in 1..(rows * columns) |->
                Cell(pointer, IF i \in clues THEN Some(rank(clues, i)) ELSE None)])

\* The sets of at most MaxClues cells of a board of n cells.
ClueSets(n) == {clues \in SUBSET (1..n) : Cardinality(clues) <= MaxClues}

InitTest ==
    /\ gameResult = NotRun
    /\ pc = "test"
    /\ solver = None
    /\ number = 0
    /\ possible_indices = NotRun
    /\ result = NotRun
    /\ recheck = NotRun
    /\ run = 1
    /\ firstResult = NotRun
    /\ ret = NotRun
    /\ \/ /\ board = Array2D(0, 0, <<>>)
          /\ \/ \E pointer \in Pointer :
                  \E n \in {None} \cup {Some(k) : k \in 0..MaxClues} :
                    call = <<"Cell::new", pointer, n>>
             \/ \E index1 \in Indices : \E index2 \in Indices :
                  call = <<"get_direction", index1, index2>>
             \/ \E index \in Indices : \E direction \in Direction :
                  call = <<"step", index, direction>>
       \/ \E rows \in 1..MaxSide : \E columns \in 1..MaxSide :
            \E clues \in ClueSets(rows * columns) :
              \/ /\ board = TestBoard(rows, columns, Final, clues)
                 /\ \E i \in 1..(rows * columns) : \E direction \in Direction :
                      call = <<"get_empty_indices_in_direction",
                               row_major_index(board, i), direction>>
              \/ /\ \E pointer \in Pointer :
                      board = TestBoard(rows, columns, pointer, clues)
                 /\ \E prev_number \in 0..(MaxClues + 1) :
                      call = <<"get_possible_indices_from_prev", prev_number>>

\* Cell::new(pointer, number)
TestCellNew ==
    /\ pc = "test"
    /\ call[1] = "Cell::new"
    /\ ret' = Cell_new(call[2], call[3])
    /\ pc' = "returned"
    /\ UNCHANGED <<board, gameResult, solver, number, possible_indices, result,
                   recheck, run, firstResult, call>>

\* get_direction(index1, index2)
TestGetDirection ==
    /\ pc = "test"
    /\ call[1] = "get_direction"
    /\ ret' = get_direction(call[2], call[3])
    /\ pc' = "returned"
    /\ UNCHANGED <<board, gameResult, solver, number, possible_indices, result,
                   recheck, run, firstResult, call>>

\* index.step(direction)
TestStep ==
    /\ pc = "test"
    /\ call[1] = "step"
    /\ ret' = step(call[2], call[3])
    /\ pc' = "returned"
    /\ UNCHANGED <<board, gameResult, solver, number, possible_indices, result,
                   recheck, run, firstResult, call>>

\* Solver::new(board), before a call of one of the solver's functions
TestSolverNew ==
    /\ pc = "test"
    /\ call[1] \in {"get_empty_indices_in_direction", "get_possible_indices_from_prev"}
    /\ \E hash_builder \in RandomState :
         solver' = Some(Solver_new(board, hash_builder))
    /\ pc' = "ready"
    /\ UNCHANGED <<board, gameResult, number, possible_indices, result, recheck, run,
                   firstResult, call, ret>>

\* solver.get_empty_indices_in_direction(index, direction)
TestEmptyIndicesInDirection ==
    /\ pc = "ready"
    /\ call[1] = "get_empty_indices_in_direction"
    /\ ret' = get_empty_indices_in_direction(unwrap(solver), call[2], call[3])
    /\ pc' = "returned"
    /\ UNCHANGED <<board, gameResult, solver, number, possible_indices, result,
                   recheck, run, firstResult, call>>

\* solver.get_possible_indices_from_prev(prev_number)
TestPossibleIndicesFromPrev ==
    /\ pc = "ready"
    /\ call[1] = "get_possible_indices_from_prev"
    /\ ret' = get_possible_indices_from_prev(unwrap(solver), call[2])
    /\ pc' = "returned"
    /\ UNCHANGED <<board, gameResult, solver, number, possible_indices, result,
                   recheck, run, firstResult, call>>

NextTest ==
    \/ TestCellNew
    \/ TestGetDirection
    \/ TestStep
    \/ TestSolverNew
    \/ TestEmptyIndicesInDirection
    \/ TestPossibleIndicesFromPrev

SpecTest == InitTest /\ [][NextTest]_vars

(***************************************************************************)
(* The properties                                                          *)
(***************************************************************************)

cellCount == num_elements(board)
Positions == 1..Len(board.cells)
Numbers == 1..(MaxCells + 1)

\* Game::new accepted the input board.
Accepted == pc # "validate" /\ is_ok(gameResult)

\* Solver::solve is over, and returned Ok.
Finished == pc \in {"done", "end"}
SolvedOk == Finished /\ is_ok(result)

\* Cell i of board b holds the number n.
Holds(b, i, n) == b.cells[i].number = Some(n)

\* Every cell of b carries a number, and the numbers are 1..cellCount, each once.
IsPermutation(b) ==
    /\ \A i \in 1..Len(b.cells) : is_some(b.cells[i].number)
    /\ \A n \in 1..num_elements(b) :
         Cardinality({i \in 1..Len(b.cells) : Holds(b, i, n)}) = 1

\* In b, wherever k and k + 1 are both placed, the arrow of the cell holding k
\* is the direction from it to the cell holding k + 1.
ArrowsConsistent(b) ==
    \A i, j \in 1..Len(b.cells) : \A k \in 1..(num_elements(b) - 1) :
        Holds(b, i, k) /\ Holds(b, j, k + 1) =>
            LET d == get_direction(row_major_index(b, i), row_major_index(b, j))
            IN is_some(d) /\ b.cells[i].pointer = Go(unwrap(d))

\* C1 (Bijection): when Solver::solve returns Ok for an accepted board, every
\* cell of the returned board carries a number and the numbers are exactly
\* 1..cellCount, each once.
C1_Bijection == Accepted /\ SolvedOk => IsPermutation(result[2])

\* C2 (Arrow consistency): when Solver::solve returns Ok for an accepted board,
\* for every k in 1..cellCount-1 the cell holding k has the pointer Go(d) with
\* d = get_direction(position(k), position(k+1)).
C2_ArrowConsistency == Accepted /\ SolvedOk => ArrowsConsistent(result[2])

\* C3 (Clue preservation): when Solver::solve returns Ok, the returned board has
\* the shape of the input and every cell numbered in the input is the identical
\* cell, number and pointer, in the returned board.
C3_CluePreservation ==
    SolvedOk =>
        /\ result[2].num_rows = board.num_rows
        /\ result[2].num_columns = board.num_columns
        /\ \A i \in Positions :
             is_some(board.cells[i].number) => result[2].cells[i] = board.cells[i]

\* C3's case: a solve that returned Ok for a board with a clue.
C3_Witness == SolvedOk /\ \E i \in Positions : is_some(board.cells[i].number)

\* C4 (Terminal placement): when Solver::solve returns Ok for an accepted board,
\* cellCount is held by a cell whose pointer is Final, and no other cell of the
\* returned board has the pointer Final.
C4_TerminalPlacement ==
    Accepted /\ SolvedOk =>
        \E i \in Positions :
            /\ Holds(result[2], i, cellCount)
            /\ result[2].cells[i].pointer = Final
            /\ \A j \in Positions \ {i} : result[2].cells[j].pointer # Final

\* C5 (Round trip): when Game::new accepts a board and Solver::solve returns Ok
\* for it, Game::new accepts the returned board.
C5_RoundTrip == Accepted /\ pc = "end" => is_ok(recheck)

\* C5's case: an accepted board with an unnumbered cell, solved and validated
\* again.
C5_Witness ==
    /\ Accepted
    /\ pc = "end"
    /\ is_ok(recheck)
    /\ \E i \in Positions : board.cells[i].number = None

\* C6 (No-branch fast path): for a board whose cells all carry a number, the
\* numbers being a permutation of 1..cellCount that satisfies every arrow,
\* Solver::solve never computes a candidate set, never changes its working
\* board, and returns Ok of the input board.
C6_NoBranchFastPath ==
    IsPermutation(board) /\ ArrowsConsistent(board) =>
        /\ possible_indices = NotRun
        /\ is_some(solver) => unwrap(solver).board = board
        /\ Finished => result = Ok(board)

\* C6's case: a complete consistent board of several cells, solved.
C6_Witness ==
    /\ IsPermutation(board)
    /\ ArrowsConsistent(board)
    /\ cellCount >= 2
    /\ Finished
    /\ result = Ok(board)

\* C7 (Solve outcome): for an accepted board Solver::solve finishes with Ok or
\* with Err(ImpossibleBoard); it never panics.
C7_SolveOutcome ==
    Accepted /\ Finished => is_ok(result) \/ result = Err(ImpossibleBoard)

\* C8 (Determinism): a second Solver::solve of the same board returns what the
\* first returned, whatever hash builders the two anchor maps drew.
C8_Determinism == run = 2 /\ Finished => result = firstResult

\* C8's case: a board of several cells solved twice, the second time with Ok.
C8_Witness == run = 2 /\ Finished /\ is_ok(result) /\ cellCount >= 2

\* C9 (Terminal invariant) as stated: in an accepted board a cell holds
\* cellCount if and only if its pointer is Final.
C9_TerminalIff ==
    Accepted =>
        \A i \in Positions : Holds(board, i, cellCount) <=> board.cells[i].pointer = Final

\* C9 amended: in an accepted board a cell that carries a number holds cellCount
\* if and only if its pointer is Final.
C9_TerminalIffNumbered ==
    Accepted =>
        \A i \in Positions :
            is_some(board.cells[i].number) =>
                (Holds(board, i, cellCount) <=> board.cells[i].pointer = Final)

\* C9's case: an accepted board with a numbered Final cell and a numbered Go cell.
C9_Witness ==
    /\ Accepted
    /\ \E i, j \in Positions :
         /\ board.cells[i].pointer = Final /\ is_some(board.cells[i].number)
         /\ board.cells[j].pointer # Final /\ is_some(board.cells[j].number)

\* Some number is carried by two or more cells of the input board.
Repeated(n) == Cardinality({i \in Positions : Holds(board, i, n)}) >= 2

\* Cell i is numbered and fails Game::new's terminal checks.
FailsTerminal(i) ==
    /\ is_some(board.cells[i].number)
    /\ \/ board.cells[i].pointer # Final /\ Holds(board, i, cellCount)
       \/ board.cells[i].pointer = Final /\ ~Holds(board, i, cellCount)

\* Cell i carries a number that an earlier cell carries.
IsRepeat(i) ==
    /\ is_some(board.cells[i].number)
    /\ \E j \in Positions : j < i /\ board.cells[j].number = board.cells[i].number

\* Cell i is numbered and fails one of Game::new's checks.
Fails(i) ==
    \/ FailsTerminal(i)
    \/ IsRepeat(i)
    \/ is_some(board.cells[i].number) /\ unwrap(board.cells[i].number) > cellCount

\* C10 (Duplicate detection) as stated: for a non-empty board in which n is
\* carried by two or more cells, Game::new returns Err(MultipleOfNumber(n)).
C10_DuplicateDetection ==
    pc # "validate" /\ cellCount > 0 =>
        \A n \in Numbers : Repeated(n) => gameResult = Err(MultipleOfNumber(n))

\* C10 amended: a non-empty board in which a number is repeated is rejected,
\* and the error is MultipleOfNumber(n) exactly when the first cell in row-major
\* order to fail a check of Game::new is a repeat of n that passes the terminal
\* checks.
C10_DuplicateRejected ==
    pc # "validate" /\ cellCount > 0 =>
        /\ (\E n \in Numbers : Repeated(n)) => is_err(gameResult)
        /\ \A n \in Numbers :
             (is_err(gameResult) /\ gameResult[2] = MultipleOfNumber(n))
             <=> \E i \in Positions :
                     /\ Holds(board, i, n)
                     /\ IsRepeat(i)
                     /\ ~FailsTerminal(i)
                     /\ \A j \in Positions : j < i => ~Fails(j)

\* C10's case: Game::new returned MultipleOfNumber.
C10_Witness ==
    /\ pc # "validate"
    /\ is_err(gameResult)
    /\ \E n \in Numbers : gameResult[2] = MultipleOfNumber(n)

\* Game::new has returned.
Validated == pc # "validate"

\* The cells that fail a check of Game::new, and the first of them in
\* row-major order.
Failing == {i \in Positions : Fails(i)}
FirstFailing == board.cells[CHOOSE i \in Failing : \A j \in Failing : i <= j]

\* C11 (Upper bound) as stated: for a non-empty board in which a cell carries
\* n > cellCount, Game::new returns Err(NumberTooHigh(n)).
C11_UpperBound ==
    Validated /\ cellCount > 0 =>
        \A n \in Numbers :
            (n > cellCount /\ \E i \in Positions : Holds(board, i, n))
            => gameResult = Err(NumberTooHigh(n))

\* C11 amended: a non-empty board with a number above cellCount is rejected;
\* the error is NumberTooHigh(n) exactly when the first cell in row-major order
\* to fail a check of Game::new is a Go cell carrying n > cellCount; and every
\* number of an accepted board lies in 1..cellCount.
C11_UpperBoundRejected ==
    Validated /\ cellCount > 0 =>
        /\ (\E i \in Positions : \E n \in Numbers : Holds(board, i, n) /\ n > cellCount)
           => is_err(gameResult)
        /\ (is_err(gameResult) /\ gameResult[2][1] = "NumberTooHigh")
           <=> (/\ Failing # {}
                /\ FirstFailing.pointer # Final
                /\ is_some(FirstFailing.number)
                /\ unwrap(FirstFailing.number) > cellCount)
        /\ (is_err(gameResult) /\ gameResult[2][1] = "NumberTooHigh")
           => gameResult[2] = NumberTooHigh(unwrap(FirstFailing.number))
        /\ is_ok(gameResult) =>
             \A i \in Positions :
                 is_some(board.cells[i].number) =>
                     unwrap(board.cells[i].number) \in 1..cellCount

\* C11's case: Game::new returned NumberTooHigh.
C11_Witness ==
    /\ Validated
    /\ is_err(gameResult)
    /\ \E n \in Numbers : gameResult[2] = NumberTooHigh(n)

\* C12 (Terminal-number errors) as stated: a board with a Go(d) cell holding
\* cellCount gets Err(FinalNumberWithDirection(cellCount, d)), and a board with
\* a Final cell holding n # cellCount gets Err(WrongFinalNumber(n, cellCount)).
C12_TerminalErrors ==
    Validated /\ cellCount > 0 =>
        \A i \in Positions :
            /\ (board.cells[i].pointer # Final /\ Holds(board, i, cellCount))
               => gameResult =
                    Err(FinalNumberWithDirection(cellCount, board.cells[i].pointer[2]))
            /\ (board.cells[i].pointer = Final
                /\ is_some(board.cells[i].number)
                /\ ~Holds(board, i, cellCount))
               => gameResult =
                    Err(WrongFinalNumber(unwrap(board.cells[i].number), cellCount))

\* C12 amended: a board with such a cell is rejected, and Game::new returns
\* the error of the first cell in row-major order to fail a check:
\* FinalNumberWithDirection(cellCount, d) exactly when that cell is a Go(d) cell
\* holding cellCount, WrongFinalNumber(n, cellCount) exactly when it is a Final
\* cell holding n # cellCount.
C12_FirstTerminalError ==
    Validated /\ cellCount > 0 =>
        /\ (\E i \in Positions : FailsTerminal(i)) => is_err(gameResult)
        /\ (is_err(gameResult) /\ gameResult[2][1] = "FinalNumberWithDirection")
           <=> (/\ Failing # {}
                /\ FirstFailing.pointer # Final
                /\ FirstFailing.number = Some(cellCount))
        /\ (is_err(gameResult) /\ gameResult[2][1] = "FinalNumberWithDirection")
           => gameResult[2] = FinalNumberWithDirection(cellCount, FirstFailing.pointer[2])
        /\ (is_err(gameResult) /\ gameResult[2][1] = "WrongFinalNumber")
           <=> (/\ Failing # {}
                /\ FirstFailing.pointer = Final
                /\ is_some(FirstFailing.number)
                /\ FirstFailing.number # Some(cellCount))
        /\ (is_err(gameResult) /\ gameResult[2][1] = "WrongFinalNumber")
           => gameResult[2] = WrongFinalNumber(unwrap(FirstFailing.number), cellCount)

\* C12's case: Game::new returned WrongFinalNumber for a board that also has a
\* Go cell holding cellCount.
C12_Witness ==
    /\ Validated
    /\ is_err(gameResult)
    /\ gameResult[2][1] = "WrongFinalNumber"
    /\ \E i \in Positions : board.cells[i].pointer # Final /\ Holds(board, i, cellCount)

(***************************************************************************)
(* The properties of the single calls                                      *)
(***************************************************************************)

\* The call named `name` has returned.
Returned(name) == pc = "returned" /\ call[1] = name

\* The change of the row and of the column one unit along a direction.
DeltaRow(d) ==
    IF d \in {"Northwest", "North", "Northeast"} THEN -1
    ELSE IF d \in {"Southwest", "South", "Southeast"} THEN 1
    ELSE 0

DeltaColumn(d) ==
    IF d \in {"Northwest", "West", "Southwest"} THEN -1
    ELSE IF d \in {"Northeast", "East", "Southeast"} THEN 1
    ELSE 0

Abs(x) == IF x < 0 THEN -x ELSE x

\* The number of steps between two positions of one ray.
Distance(a, b) ==
    IF Abs(b.row - a.row) > Abs(b.column - a.column)
      THEN Abs(b.row - a.row) ELSE Abs(b.column - a.column)

\* b is reached from a by one or more steps along d.
OnRay(a, b, d) ==
    /\ Distance(a, b) >= 1
    /\ b.row = a.row + Distance(a, b) * DeltaRow(d)
    /\ b.column = a.column + Distance(a, b) * DeltaColumn(d)

\* The positions of the board, and those that hold no number.
BoardIndices ==
    {[row |-> r, column |-> c] : r \in 0..(board.num_rows - 1),
                                 c \in 0..(board.num_columns - 1)}

Unnumbered(q) == board.cells[q.row * board.num_columns + q.column + 1].number = None

Range(seq) == {seq[j] : j \in 1..Len(seq)}

\* seq lists, nearest first, exactly the unnumbered positions of the board on
\* the ray from start along d.
IsRayScan(seq, start, d) ==
    /\ Range(seq) = {q \in BoardIndices : OnRay(start, q, d) /\ Unnumbered(q)}
    /\ \A j, k \in 1..Len(seq) :
         j < k => Distance(start, seq[j]) < Distance(start, seq[k])
    /\ start \notin Range(seq)

\* seq lists, in row-major order, exactly the unnumbered positions of the board.
IsRowMajorScan(seq) ==
    /\ Range(seq) = {q \in BoardIndices : Unnumbered(q)}
    /\ \A j, k \in 1..Len(seq) :
         j < k => seq[j].row * board.num_columns + seq[j].column
                  < seq[k].row * board.num_columns + seq[k].column

\* C13 (Zero rejection): Cell::new(pointer, number) returns Err(NoZeroAllowed)
\* exactly when number is Some(0), and otherwise Ok of the cell with that
\* pointer and number; no cell it returns holds 0.
C13_ZeroRejection ==
    Returned("Cell::new") =>
        /\ is_err(ret) <=> call[3] = Some(0)
        /\ is_err(ret) => ret[2] = NoZeroAllowed
        /\ call[3] # Some(0) =>
             is_ok(ret) /\ ret[2].pointer = call[2] /\ ret[2].number = call[3]
        /\ is_ok(ret) => ret[2].number # Some(0)

\* C13's case: Cell::new refused the number 0.
C13_Witness == Returned("Cell::new") /\ call[3] = Some(0) /\ ret = Err(NoZeroAllowed)

\* C14 (get_direction): get_direction(a, b) is None when a = b and when both
\* differences are non-zero and differ in absolute value; otherwise it is the
\* one direction along which b is reached from a.
C14_GetDirection ==
    Returned("get_direction") =>
        LET a == call[2]
            b == call[3]
        IN /\ a = b => ret = None
           /\ (/\ b.row # a.row
               /\ b.column # a.column
               /\ Abs(b.row - a.row) # Abs(b.column - a.column)) => ret = None
           /\ \A d \in Direction : ret = Some(d) <=> OnRay(a, b, d)
           /\ ret = None <=> ~\E d \in Direction : OnRay(a, b, d)

\* C14's case: a direction returned for two positions several steps apart on a
\* diagonal.
C14_Witness ==
    /\ Returned("get_direction")
    /\ ret = Some("Southwest")
    /\ Distance(call[2], call[3]) >= 2

\* C15 (Index::step): step(p, d) is None exactly when the move would take the
\* row or the column below 0, and otherwise the position one unit along d,
\* whatever the size of any board.
C15_Step ==
    Returned("step") =>
        LET p == call[2]
            d == call[3]
        IN /\ ret = None <=> (p.row + DeltaRow(d) < 0 \/ p.column + DeltaColumn(d) < 0)
           /\ ret # None =>
                ret = Some([row |-> p.row + DeltaRow(d),
                            column |-> p.column + DeltaColumn(d)])

\* C15's case: a step beyond the largest row of the model.
C15_Witness ==
    /\ Returned("step")
    /\ ret # None
    /\ unwrap(ret).row = MaxSide + 1

\* C16 (Blocking ray scan) as stated: no position beyond a numbered cell of the
\* ray is returned.
C16_BlockingScan ==
    Returned("get_empty_indices_in_direction") =>
        \A j \in 1..Len(ret) :
            ~\E q \in BoardIndices :
                /\ OnRay(call[2], q, call[3])
                /\ ~Unnumbered(q)
                /\ Distance(call[2], q) < Distance(call[2], ret[j])

\* C16 amended: the scan ends at the board boundary only: it returns unnumbered
\* positions of the board only, and every unnumbered position of the ray, also
\* one that lies beyond a numbered cell.
C16_ScanToBoundary ==
    Returned("get_empty_indices_in_direction") =>
        /\ \A j \in 1..Len(ret) : ret[j] \in BoardIndices /\ Unnumbered(ret[j])
        /\ \A q \in BoardIndices :
             OnRay(call[2], q, call[3]) /\ Unnumbered(q) => q \in Range(ret)

\* C16's case: a position returned from beyond a numbered cell of the ray.
C16_Witness ==
    /\ Returned("get_empty_indices_in_direction")
    /\ \E j \in 1..Len(ret) : \E q \in BoardIndices :
         /\ OnRay(call[2], q, call[3])
         /\ ~Unnumbered(q)
         /\ Distance(call[2], q) < Distance(call[2], ret[j])

\* C17 (Ray scan result): get_empty_indices_in_direction(start, d) returns
\* exactly the unnumbered positions of the board on the ray from start along d,
\* nearest first, and never start itself.
C17_RayScanResult ==
    Returned("get_empty_indices_in_direction") => IsRayScan(ret, call[2], call[3])

\* C17's case: a scan along a diagonal that returned several positions.
C17_Witness ==
    /\ Returned("get_empty_indices_in_direction")
    /\ call[3] = "Southwest"
    /\ Len(ret) >= 2

\* C18 (Candidates from the predecessor): get_possible_indices_from_prev
\* returns every unnumbered position in row-major order when the predecessor has
\* no anchor, the ray scan from the anchor along d when the anchor is a Go(d)
\* cell, and the internal error when the anchor is a Final cell.
C18_PossibleIndices ==
    Returned("get_possible_indices_from_prev") =>
        LET anchors == {i \in Positions : Holds(board, i, call[2])} IN
        /\ anchors = {} => is_ok(ret) /\ IsRowMajorScan(ret[2])
        /\ \A i \in anchors :
             /\ board.cells[i].pointer = Final =>
                  is_err(ret) /\ ret[2] = Internal(row_major_index(board, i))
             /\ board.cells[i].pointer # Final =>
                  /\ is_ok(ret)
                  /\ IsRayScan(ret[2], row_major_index(board, i),
                               board.cells[i].pointer[2])

\* C18's case: the candidates for number 1 on a board with clues and several
\* unnumbered cells.
C18_Witness ==
    /\ Returned("get_possible_indices_from_prev")
    /\ call[2] = 0
    /\ \E i \in Positions : is_some(board.cells[i].number)
    /\ is_ok(ret)
    /\ Len(ret[2]) >= 2

====
